---- MODULE Spec2Model ----
(***************************************************************************)
(* Skill dispatch layer of the virtual assistant: SkillDialog (the         *)
(* dispatch state machine) over SkillWebSocketTransport (the transport     *)
(* client).  One conversation, one SkillDialog instance, one transport.    *)
(* An action is one whole handler call (onBeginDialog, onContinueDialog);  *)
(* the remote skill's behaviour during each request is an input of the     *)
(* call (a "script" of responses).                                         *)
(***************************************************************************)
EXTENDS Integers, Sequences, FiniteSets, TLC

\* ------------------------------------------------------------------ bounds

\* How many callback requests the skill raises during one request at most.
MaxCallbacks == 1

\* How many events wait in queuedResponses at most when a turn starts.
MaxQueued == 2

\* ------------------------------------------------------------------ values

\* JavaScript's undefined, for object-typed and for string-typed places.
Undefined == [tag |-> "undefined"]
UndefStr == "<undefined>"

\* A string seen as a JavaScript value (to compare with objects by ===).
StringValue(s) == [tag |-> "string", v |-> s]

\* Well-known event names (SkillEvents, TokenEvents, skillConstants).
fallbackEventName == "skill/fallbackrequest"
fallbackHandledEventName == "skill/fallbackhandled"
cancelAllSkillDialogsEventName == "skill/cancelallskilldialogs"
tokenResponseEventName == "tokens/response"
skillStart == "skill/start"

\* Ids of the child dialogs of the component.
confirmSkillSwitchPrompt == "confirmSkillSwitchPrompt"
confirmSkillSwitchFlow == "confirmSkillSwitchFlow"
authDialogId == "MultiProviderAuthDialog"

Last(s) == s[Len(s)]
Front(s) == SubSeq(s, 1, Len(s) - 1)

\* The result of a call that the code keeps in a constant (const r = e) is
\* bound once and handed on: CHOOSE y \in {body : r \in {e}} : TRUE is the
\* value of body with r the value of e.

\* ------------------------------------------------------- SkillContext (map)

\* A SkillContext is a set of <<name, value>> pairs with unique names.
GetObj(ctx, name) ==
    IF \E p \in ctx : p[1] = name
    THEN (CHOOSE p \in ctx : p[1] = name)[2]
    ELSE UndefStr

SetObj(ctx, name, value) ==
    {p \in ctx : p[1] # name} \cup {<<name, value>>}

\* ---------------------------------------------------------------- activities

Activity(type, name, text, speak, recipient, semanticAction, value) ==
    [tag |-> "activity", type |-> type, name |-> name, text |-> text,
     speak |-> speak, recipient |-> recipient,
     semanticAction |-> semanticAction, value |-> value]

SemanticAction(id, entities, state) ==
    [tag |-> "semanticAction", id |-> id, entities |-> entities, state |-> state]

\* ActivityExtensions.createReply: a blank message addressed to the sender
\* of the source activity (recipient := source.from).
CreateReply(activity) ==
    Activity("message", UndefStr, "", UndefStr, "user", Undefined, Undefined)

\* The provider token response of the auth sub-dialog, and the test for it.
ProviderTokenResponse == [tag |-> "ProviderTokenResponse", token |-> "tok"]
DialogTurnResult(status, result) ==
    [tag |-> "DialogTurnResult", status |-> status, result |-> result]
isProviderTokenResponse(v) == v.tag = "ProviderTokenResponse"

\* ------------------------------------------------------------ url strings

\* A url is the sequence of its characters.
httpPrefix == <<"h", "t", "t", "p", ":", "/", "/">>
httpsPrefix == <<"h", "t", "t", "p", "s", ":", "/", "/">>
wsPrefix == <<"w", "s", ":", "/", "/">>
wssPrefix == <<"w", "s", "s", ":", "/", "/">>

\* String.prototype.startsWith
startsWith(url, prefix) ==
    Len(url) >= Len(prefix) /\ SubSeq(url, 1, Len(prefix)) = prefix

\* String.prototype.indexOf, counted from 1; 0 when the pattern is absent.
IndexOf(url, pattern) ==
    LET hits == {i \in 1..(Len(url) - Len(pattern) + 1) :
                    SubSeq(url, i, i + Len(pattern) - 1) = pattern}
    IN  IF hits = {} THEN 0 ELSE CHOOSE i \in hits : \A j \in hits : i <= j

\* A replacement of every occurrence of the pattern.
RECURSIVE ReplaceAll(_, _, _)
ReplaceAll(url, pattern, replacement) ==
    LET i == IndexOf(url, pattern)
    IN  IF i = 0 THEN url
        ELSE SubSeq(url, 1, i - 1) \o replacement
             \o ReplaceAll(SubSeq(url, i + Len(pattern), Len(url)), pattern, replacement)

\* String.prototype.replace with a string pattern: the first occurrence only.
replace(url, pattern, replacement) ==
    LET i == IndexOf(url, pattern)
    IN  IF i = 0 THEN url
        ELSE SubSeq(url, 1, i - 1) \o replacement
             \o SubSeq(url, i + Len(pattern), Len(url))

\* SkillWebSocketTransport.ensureWebSocketUrl
ensureWebSocketUrl(url) ==
    IF url = <<>> THEN [state |-> "threw", endpoint |-> url, url |-> <<>>]
    ELSE IF startsWith(url, httpPrefix)
         THEN [state |-> "returned", endpoint |-> url,
               url |-> replace(url, httpPrefix, wsPrefix)]
    ELSE IF startsWith(url, httpsPrefix)
         THEN [state |-> "returned", endpoint |-> url,
               url |-> replace(url, httpsPrefix, wssPrefix)]
    ELSE [state |-> "returned", endpoint |-> url, url |-> url]

\* ------------------------------------------------------------ configuration

Calendar ==
    [id |-> "calendar", name |-> "Calendar", msaAppId |-> "calendar-app",
     endpoint |-> httpsPrefix \o <<"c", "a", "l">>,
     actions |-> << [id |-> "createEvent", slots |-> <<"date">>],
                    [id |-> "findEvent", slots |-> <<"date", "location">>],
                    [id |-> "summary", slots |-> <<>>] >>]

Email ==
    [id |-> "email", name |-> "Email", msaAppId |-> "email-app",
     endpoint |-> httpPrefix \o <<"m">>,
     actions |-> << [id |-> "sendMail", slots |-> <<"contact", "date">>] >>]

Manifests == {Calendar, Email}

SkillContexts ==
    { {},
      {<<"date", "tomorrow">>, <<"unrelated", "x">>},
      {<<"date", "friday">>, <<"location", "office">>, <<"dat", "y">>} }

\* The recognizer supplied by the host: none, or what it answers for the
\* turn and whether it asks for a confirmation before switching.
Recognizers ==
    {Undefined}
    \cup {[tag |-> "recognizer", answer |-> "email", confirmIntentSwitch |-> c] :
            c \in BOOLEAN}
    \cup {[tag |-> "recognizer", answer |-> UndefStr, confirmIntentSwitch |-> TRUE]}

\* ----------------------------------------------------------- the remote skill

HandoffWithEntities ==
    Activity("handoff", UndefStr, UndefStr, UndefStr, "bot",
             SemanticAction("done", {<<"event", "created">>}, "done"), Undefined)
HandoffPlain ==
    Activity("handoff", UndefStr, UndefStr, UndefStr, "bot", Undefined, Undefined)

\* A callback request of the skill.  A token request carries how the auth
\* sub-dialog answers when it is begun: it waits for the user, completes at
\* once with a token, or completes at once without one.
Callbacks ==
    {[kind |-> "token", auth |-> a, activity |-> Undefined] :
        a \in {"waiting", "token", "cancelled"}}
    \cup {[kind |-> "fallback", auth |-> "none", activity |-> Undefined]}
    \cup {[kind |-> "handoff", auth |-> "none", activity |-> h] :
            h \in {HandoffWithEntities, HandoffPlain}}

RECURSIVE SeqsUpTo(_, _)
SeqsUpTo(S, n) ==
    IF n = 0 THEN {<<>>}
    ELSE LET shorter == SeqsUpTo(S, n - 1)
         IN  shorter \cup {Append(s, x) : s \in shorter, x \in S}

\* What happens to one request: getToken fails, connectAsync fails,
\* sendAsync fails, or the request goes through and the skill raises
\* callbacks during the exchange.
Responses ==
    {[fail |-> "none", callbacks |-> cs] : cs \in SeqsUpTo(Callbacks, MaxCallbacks)}
    \cup {[fail |-> f, callbacks |-> <<>>] : f \in {"token", "connect", "send"}}

Quiet == [fail |-> "none", callbacks |-> <<>>]

\* The script of one turn: the response to its first request; the skill is
\* quiet during any further request of the same turn, or hands off during
\* the second, or the second send fails.
Scripts ==
    {<<r>> : r \in Responses}
    \cup {<<Quiet, [fail |-> "none",
                    callbacks |-> <<[kind |-> "handoff", auth |-> "none", activity |-> h]>>]>> :
            h \in {HandoffWithEntities, HandoffPlain}}
    \cup {<<Quiet, [fail |-> "send", callbacks |-> <<>>]>>}

\* The inbound activity of a turn.
Message(text, recipient, semanticAction) ==
    Activity("message", UndefStr, text, UndefStr, recipient, semanticAction, Undefined)

BeginInbound ==
    {Message("book a room", r, sa) :
        r \in {"bot", UndefStr}, sa \in {Undefined, SemanticAction("previous", {}, "")}}

ContinueInbound ==
    {Message(t, "bot", Undefined) : t \in {"at nine", "yes", "no"}}
    \cup {Message("at nine", UndefStr, Undefined)}

\* The options of a begin: none, or an action name (possibly missing).
BeginOptions ==
    {Undefined}
    \cup {[action |-> a] : a \in {"", "createEvent", "summary", "sendMail", "bogus"}}

\* ------------------------------------------------------------ slot matching

RECURSIVE MatchFrom(_, _, _, _)
MatchFrom(actionSlots, skillContext, i, slots) ==
    IF i > Len(actionSlots) THEN slots
    ELSE LET value == GetObj(skillContext, actionSlots[i])
         IN  MatchFrom(actionSlots, skillContext, i + 1,
                       IF value # UndefStr
                       THEN SetObj(slots, actionSlots[i], value)
                       ELSE slots)

\* The entries of the SkillContext named (exactly) by one of the slots.
matchSkillContextToSlots(actionSlots, skillContext) ==
    IF Len(actionSlots) > 0 THEN MatchFrom(actionSlots, skillContext, 1, {}) ELSE {}

\* The reduce over the manifest's actions: the slots of each action that
\* no earlier action has, appended in order.
RECURSIVE ReduceSlots(_, _, _)
ReduceSlots(actions, i, acc) ==
    IF i > Len(actions) THEN acc
    ELSE LET currDistinct ==
                 SelectSeq(actions[i].slots,
                           LAMBDA slot : ~ \E k \in 1..Len(acc) : acc[k] = slot)
         IN  ReduceSlots(actions, i + 1, acc \o currDistinct)

DistinctSlots(manifest) == ReduceSlots(manifest.actions, 1, <<>>)

\* actions.find(item => item.id === actionName)
FindAction(manifest, actionName) ==
    LET hits == {i \in 1..Len(manifest.actions) : manifest.actions[i].id = actionName}
    IN  IF hits = {} THEN Undefined
        ELSE manifest.actions[CHOOSE i \in hits : \A j \in hits : i <= j]

\* The test that selects the branch of a named action.
ActionGiven(actionName) ==
    (actionName # "" /\ actionName # UndefStr) \/ actionName # ""

\* slots.forEachObj((value, index) => semanticAction.entities.push): the
\* callback only reads a property, so the entities stay as they were.
CopySlotsToEntities(slots, entities) == entities

\* onBeginDialog up to the hand-off trace: the semantic action put on the
\* activity.  threw: the action was not found in the manifest.
PrepareActivity(manifest, skillContext, activity, options) ==
    LET dialogOptions == IF options # Undefined THEN options ELSE [action |-> ""]
        actionName == dialogOptions.action
        action == FindAction(manifest, actionName)
        skillSlots == IF ActionGiven(actionName)
                      THEN (IF action # Undefined THEN action.slots ELSE <<>>)
                      ELSE DistinctSlots(manifest)
        slots == matchSkillContextToSlots(skillSlots, skillContext)
        state == IF ActionGiven(actionName) THEN skillStart ELSE ""
        semanticAction ==
            SemanticAction(actionName, CopySlotsToEntities(slots, {}), state)
    IN  IF activity.semanticAction # Undefined
        THEN IF ActionGiven(actionName) /\ action = Undefined
             THEN [threw |-> TRUE, activity |-> activity,
                   skillSlots |-> <<>>, slots |-> {}, evaluated |-> TRUE]
             ELSE [threw |-> FALSE,
                   activity |-> [activity EXCEPT !.semanticAction = semanticAction],
                   skillSlots |-> skillSlots, slots |-> slots, evaluated |-> TRUE]
        ELSE [threw |-> FALSE, activity |-> activity,
              skillSlots |-> <<>>, slots |-> {}, evaluated |-> FALSE]

\* ------------------------------------------------------------------ state

VARIABLES
    skillManifest,            \* SkillDialog.skillManifest (set by the constructor)
    skillIntentRecognizer,    \* SkillDialog.skillIntentRecognizer
    skillContext,             \* the conversation's SkillContext (user state)
    queuedResponses,          \* SkillDialog.queuedResponses
    authDialogCancelled,      \* SkillDialog.authDialogCancelled
    streamingTransportClient, \* SkillWebSocketTransport.streamingTransportClient
    handoffActivity,          \* SkillWebSocketTransport.handoffActivity
    phase,                    \* the invocation on the host's dialog stack
    innerStack,               \* the component's inner dialog stack
    confirmOptions,           \* options of the confirm sub-flow, when begun
    skillTransport,           \* SkillDialog.skillTransport: which implementation
    turn,                     \* what the last handler call did and returned
    urlCall,                  \* a call of ensureWebSocketUrl and what it gave
    serviceClientCredentials, \* SkillDialog.serviceClientCredentials
    conversation,             \* the conversation the adapter is serving
    parked,                   \* the stored dialog state of the other conversation
    handoffFrom,              \* history: the conversation whose turn recorded handoffActivity
    claimsCall,               \* a call of validateClaims and what it gave
    main                      \* the skill's MainDialog: its inner stack and its last turn

vars == <<skillManifest, skillIntentRecognizer, skillContext, queuedResponses,
          authDialogCancelled, streamingTransportClient, handoffActivity,
          phase, innerStack, confirmOptions, skillTransport, turn, urlCall,
          serviceClientCredentials, conversation, parked, handoffFrom, claimsCall, main>>

NoClient == [defined |-> FALSE, token |-> FALSE, fallback |-> FALSE,
             connected |-> FALSE, fresh |-> FALSE, url |-> <<>>]

\* A client made on an earlier turn with the token handler only.
EarlierClient(manifest) ==
    [defined |-> TRUE, token |-> TRUE, fallback |-> FALSE, connected |-> FALSE,
     fresh |-> FALSE, url |-> ensureWebSocketUrl(manifest.endpoint).url]

\* A handler call works on a record w of everything it may change.
World(activity, script) ==
    [stack |-> innerStack, queue |-> queuedResponses,
     client |-> [streamingTransportClient EXCEPT !.fresh = FALSE],
     handoff |-> handoffActivity, authCancelled |-> authDialogCancelled,
     confirm |-> confirmOptions, activity |-> activity, script |-> script,
     sent |-> <<>>, fwds |-> <<>>, telemetry |-> 0, endCalls |-> 0, log |-> <<>>,
     exchanges |-> <<>>, transport |-> skillTransport, created |-> 0]

Outcome(w, status, result, error) ==
    [w |-> w, status |-> status, result |-> result, error |-> error]

\* ------------------------------------------------------ dialog context calls

\* innerDc.endDialog(result): the active inner dialog is popped; with nothing
\* left the component completes with the result.  A waterfall left on top
\* has no step after finishIntentSwitch and ends with the same result; an
\* auth dialog left on top re-prompts and the turn ends.
RECURSIVE InnerEndDialog(_, _)
InnerEndDialog(w, result) ==
    LET popped == IF Len(w.stack) > 0 THEN Front(w.stack) ELSE w.stack
        w1 == [w EXCEPT !.stack = popped, !.endCalls = @ + 1,
                        !.log = Append(@, [step |-> "end", what |-> "endDialog"])]
    IN  IF Len(popped) = 0 THEN Outcome(w1, "complete", result, "none")
        ELSE IF Last(popped) = confirmSkillSwitchFlow
             THEN InnerEndDialog([w1 EXCEPT !.endCalls = w.endCalls], result)
             ELSE Outcome(w1, "waiting", Undefined, "none")

\* confirmIntentSwitch, the first step of the confirm sub-flow, as begun by
\* innerDc.beginDialog(confirmSkillSwitchFlow, options).
confirmIntentSwitch(w, options) ==
    IF options # Undefined
    THEN Outcome([w EXCEPT !.stack = @ \o <<confirmSkillSwitchFlow, confirmSkillSwitchPrompt>>,
                           !.confirm = options,
                           !.log = Append(@, [step |-> "prompt", what |-> options.targetIntent])],
                 "waiting", Undefined, "none")
    ELSE Outcome(w, "complete", Undefined, "none")

\* ------------------------------------------------------------ the transport

\* The handler made by getTokenRequestCallback: begins the auth sub-dialog
\* and queues a token-response event when it completes with a token.
TokenRequestCallback(w, cb) ==
    LET result == IF cb.auth = "waiting" THEN DialogTurnResult("waiting", Undefined)
                  ELSE IF cb.auth = "token"
                       THEN DialogTurnResult("complete", ProviderTokenResponse)
                       ELSE DialogTurnResult("complete", Undefined)
        w1 == IF cb.auth = "waiting" /\ w.client.fresh
              THEN [w EXCEPT !.stack = Append(@, authDialogId)]
              ELSE w
        tokenEvent == [CreateReply(w.activity) EXCEPT
                          !.type = "event", !.name = tokenResponseEventName,
                          !.value = result.result]
    IN  IF result.status = "complete"
        THEN IF result.result # Undefined /\ isProviderTokenResponse(result)
             THEN [w1 EXCEPT !.queue = Append(@, tokenEvent)]
             ELSE [w1 EXCEPT !.authCancelled = TRUE]
        ELSE w1

\* The handler made by SkillDialog.getFallbackCallback: queues a fallback event.
FallbackCallback(w, cb) ==
    [w EXCEPT !.queue = Append(@, [CreateReply(w.activity) EXCEPT
                                      !.type = "event", !.name = fallbackEventName])]

\* The request handler installed with the connection: it hands a callback
\* request to the handlers it was created with.  A handler that was not
\* supplied is undefined and calling it fails inside the request handler.
HandleCallback(w, cb) ==
    IF cb.kind = "handoff" THEN [w EXCEPT !.handoff = cb.activity]
    ELSE IF cb.kind = "token"
         THEN (IF w.client.token THEN TokenRequestCallback(w, cb) ELSE w)
         ELSE (IF w.client.fallback THEN FallbackCallback(w, cb) ELSE w)

RECURSIVE HandleCallbacks(_, _)
HandleCallbacks(w, cbs) ==
    IF cbs = <<>> THEN w ELSE HandleCallbacks(HandleCallback(w, Head(cbs)), Tail(cbs))

\* activity.recipient.id = skillManifest.msaAppId
SubstituteRecipient(activity, manifest) == [activity EXCEPT !.recipient = manifest.msaAppId]

\* What the recipient is left as when the request is built and the send is
\* still to come.
KeepRecipient(activity, recipientId) == activity

\* activity.recipient.id = recipientId ("set back recipient id")
RestoreRecipient(activity, recipientId) == [activity EXCEPT !.recipient = recipientId]

\* What the transport does when the exchange is over and no handoff is
\* recorded.  SkillWebSocketTransport throws; a transport supplied to the
\* constructor of SkillDialog may resolve with undefined instead.
ThrowsOnMissingHandoff(transport) == transport = "SkillWebSocketTransport"

\* serviceClientCredentials.getToken(): the token of this call, the n-th
\* transport call of the turn.
getToken(n) == [tag |-> "token", call |-> n]

\* A header that carries no token of this call.
NoBearer(token) == [scheme |-> "Bearer", token |-> Undefined]

\* headers.set('Authorization', `Bearer ${token}`)
Bearer(token) == [scheme |-> "Bearer", token |-> token]

\* A client that is made whatever the transport holds.
AlwaysNew(client) == TRUE

\* this.streamingTransportClient === undefined
NeedsClient(client) == ~ client.defined

\* SkillWebSocketTransport.forwardToSkill
TransportForward(w, manifest, activity, tokenRequestHandler, fallbackHandler) ==
    LET response == IF Len(w.script) > 0 THEN Head(w.script) ELSE Quiet
        w1 == [w EXCEPT !.script = IF Len(@) > 0 THEN Tail(@) ELSE @]
        creates == NeedsClient(w1.client)
        url == ensureWebSocketUrl(manifest.endpoint)
        w2 == [w1 EXCEPT !.client = IF creates
                                    THEN [defined |-> TRUE, token |-> tokenRequestHandler,
                                          fallback |-> fallbackHandler,
                                          connected |-> FALSE, fresh |-> TRUE,
                                          url |-> url.url]
                                    ELSE @,
                         !.created = IF creates THEN @ + 1 ELSE @]
        token == getToken(Len(w.exchanges) + 1)
        w3 == [w2 EXCEPT !.client.connected = TRUE]
        sends == activity.recipient # UndefStr
        recipientId == activity.recipient
        substituted == SubstituteRecipient(activity, manifest)
        body == substituted
        atSend == RestoreRecipient(substituted, recipientId)
        w4 == [w3 EXCEPT !.sent = IF sends THEN Append(@, body) ELSE @,
                         !.log = IF sends THEN Append(@, [step |-> "send", what |-> body.name])
                                 ELSE @]
        w5 == HandleCallbacks(w4, IF sends THEN response.callbacks ELSE <<>>)
        w6 == [w5 EXCEPT !.telemetry = @ + 1]
        Exchange(built, observed, ok, error, handoff) ==
            [request |-> activity,
             body |-> IF built THEN body ELSE Undefined,
             atSend |-> IF built THEN atSend ELSE activity,
             after |-> IF built THEN atSend ELSE activity,
             observed |-> observed, ok |-> ok, error |-> error, handoff |-> handoff,
             connected |-> built /\ w3.client.connected,
             token |-> IF error \in {"url is empty!", "getToken failed"}
                       THEN Undefined ELSE token,
             authorization |-> IF error \in {"url is empty!", "getToken failed"}
                               THEN Undefined ELSE Bearer(token),
             fresh |-> w2.client.fresh,
             installed |-> [token |-> w2.client.token, fallback |-> w2.client.fallback],
             passed |-> [token |-> tokenRequestHandler, fallback |-> fallbackHandler]]
        Failed(ww, built, observed, error) ==
            [w |-> [ww EXCEPT !.exchanges =
                       Append(@, Exchange(built, observed, FALSE, error, Undefined))],
             ok |-> FALSE, error |-> error, handoff |-> Undefined]
        observed == IF sends THEN response.callbacks ELSE <<>>
    IN  IF creates /\ url.state = "threw" THEN Failed(w1, FALSE, <<>>, "url is empty!")
        ELSE IF response.fail = "token" THEN Failed(w2, FALSE, <<>>, "getToken failed")
        ELSE IF response.fail = "connect" THEN Failed(w2, FALSE, <<>>, "connectAsync failed")
        ELSE IF response.fail = "send" /\ sends
             THEN Failed(w4, TRUE, <<>>, "Callback failed")
        ELSE (CHOOSE y1 \in {(
                IF done.handoff = Undefined /\ ThrowsOnMissingHandoff(done.transport)
                THEN Failed(done, sends, observed, "handoffActivity value is Undefined")
                ELSE [w |-> [done EXCEPT !.exchanges =
                                Append(@, Exchange(sends, observed, TRUE, "none", done.handoff))],
                      ok |-> TRUE, error |-> "none", handoff |-> done.handoff]) :
              done \in {w6}} : TRUE)

\* SkillWebSocketTransport.cancelRemoteDialogs
cancelRemoteDialogs(w, manifest) ==
    LET cancelRemoteDialogEvent ==
            [CreateReply(w.activity) EXCEPT
                !.type = "event", !.name = cancelAllSkillDialogsEventName]
    IN  TransportForward(w, manifest, cancelRemoteDialogEvent, FALSE, FALSE)

\* A transport whose connection is left as it is.
StayConnected(w) == w

\* SkillWebSocketTransport.disconnect
disconnect(w) ==
    IF w.client.defined
    THEN [w EXCEPT !.client.connected = FALSE,
                   !.log = Append(@, [step |-> "disconnect", what |-> "client"])]
    ELSE w

\* ------------------------------------------------------------ the dispatch

Entities(semanticAction) == [tag |-> "entities", v |-> semanticAction.entities]
Boolean(b) == [tag |-> "boolean", v |-> b]
Restart == [tag |-> "RouterDialogTurnResult", v |-> "Restart"]

\* A handoff result that forgets the entities of the semantic action.
HandoffResultDropped(handoff) == Undefined

\* The result handed to innerDc.endDialog when the transport yields a handoff.
HandoffResult(handoff) ==
    IF handoff.semanticAction # Undefined
    THEN Entities(handoff.semanticAction)
    ELSE Undefined

\* lastEvent === SkillEvents.fallbackEventName
IsFallbackEvent(lastEvent) == lastEvent = StringValue(fallbackEventName)

\* The catch of forwardToSkill: the dialog is ended and the error rethrown.
Catch(w, error) ==
    Outcome(InnerEndDialog(w, Undefined).w, "error", Undefined, error)

\* Array.prototype.shift: the first element is taken.
Shift(queue) == [event |-> Head(queue), rest |-> Tail(queue)]

\* A pop that also forgets what is left of the queue.
PopAll(queue) == [event |-> Last(queue), rest |-> <<>>]

\* Array.prototype.pop: the last element is taken.
Pop(queue) == [event |-> Last(queue), rest |-> Front(queue)]

\* SkillDialog.forwardToSkill and the loop that drains queuedResponses.
\* cfg: the manifest and the recognizer of the dialog.
RECURSIVE forwardToSkill(_, _, _), Drain(_, _, _)
forwardToSkill(w, cfg, activity) ==
    (CHOOSE y2 \in {(
        LET w1 == [r.w EXCEPT !.fwds = Append(@, [activity |-> activity, ok |-> r.ok,
                                                  handoff |-> r.handoff])]
        IN  IF ~ r.ok THEN Catch(w1, r.error)
            ELSE IF r.handoff # Undefined
                 THEN InnerEndDialog(w1, HandoffResult(r.handoff))
                 ELSE (CHOOSE y3 \in {(
                         IF d.status = "error" THEN Catch(d.w, d.error) ELSE d) :
                       d \in {Drain(w1, cfg, Outcome(w1, "waiting", Undefined, "none"))}} :
                         TRUE)) :
      r \in {TransportForward(w, cfg.manifest, activity, TRUE, FALSE)}} : TRUE)

Drain(w, cfg, dialogResult) ==
    IF Len(w.queue) = 0 THEN [dialogResult EXCEPT !.w = w]
    ELSE
      LET taken == Pop(w.queue)
          popped == taken.event
          w1 == [w EXCEPT !.queue = taken.rest]
          isFallback == IsFallbackEvent(popped)
          lastEvent == IF isFallback
                       THEN [popped EXCEPT !.name = fallbackHandledEventName]
                       ELSE popped
          recognizes == isFallback /\ cfg.recognizer # Undefined
          recognizedSkillManifest == cfg.recognizer.answer
          w2 == IF recognizes
                THEN [w1 EXCEPT !.log = Append(@, [step |-> "recognize",
                                                   what |-> recognizedSkillManifest])]
                ELSE w1
          switches == recognizes /\ recognizedSkillManifest # UndefStr
                                 /\ recognizedSkillManifest # cfg.manifest.id
          options == [fallbackHandledEvent |-> lastEvent,
                      targetIntent |-> recognizedSkillManifest,
                      userInputActivity |-> w.activity]
          resent == forwardToSkill(w2, cfg, lastEvent)
      IN  IF switches
          THEN IF cfg.recognizer.confirmIntentSwitch
               THEN confirmIntentSwitch(w2, options)
               ELSE CHOOSE y \in {(
                      IF cancelled.ok
                      THEN InnerEndDialog(cancelled.w, StringValue(recognizedSkillManifest))
                      ELSE Outcome(cancelled.w, "error", Undefined, cancelled.error)) :
                    cancelled \in {cancelRemoteDialogs(w2, cfg.manifest)}} : TRUE
          ELSE (CHOOSE y4 \in {(
                  IF re.status = "error" THEN re ELSE Drain(re.w, cfg, re)) :
                re \in {resent}} : TRUE)

\* The test of finishIntentSwitch that chooses between switching and
\* staying with the current skill.
SwitchChosen(confirmOpts, promptResult) == confirmOpts # Undefined

\* finishIntentSwitch, the second step of the confirm sub-flow, run with the
\* answer of the confirm prompt.
finishIntentSwitch(w, cfg, promptResult) ==
    LET opts == w.confirm
        activityText == opts.userInputActivity.text
    IN  IF opts # Undefined
        THEN IF SwitchChosen(opts, promptResult)
             THEN CHOOSE y \in {(
                    LET w2 == [cancelled.w EXCEPT
                                  !.activity.text = IF activityText # UndefStr
                                                    THEN activityText ELSE "",
                                  !.activity.speak = opts.userInputActivity.speak,
                                  !.log = Append(@, [step |-> "restore",
                                                     what |-> activityText])]
                    IN  IF cancelled.ok
                        THEN InnerEndDialog(w2, Boolean(TRUE))
                        ELSE Outcome(cancelled.w, "error", Undefined, cancelled.error)) :
                  cancelled \in {cancelRemoteDialogs(w, cfg.manifest)}} : TRUE
             ELSE CHOOSE y \in {(
                    IF dialogResult.status = "error" THEN dialogResult
                    ELSE InnerEndDialog(dialogResult.w,
                                        DialogTurnResult(dialogResult.status,
                                                         dialogResult.result))) :
                  dialogResult \in {forwardToSkill(w, cfg, opts.userInputActivity)}} : TRUE
        ELSE InnerEndDialog(w, Undefined)

\* The confirm prompt: what it recognizes in the user's reply.
ConfirmRecognized(text) == text \in {"yes", "no"}
ConfirmValue(text) == text = "yes"

\* innerDC.continueDialog() with the confirm prompt active: a recognized
\* reply ends the prompt and resumes the waterfall at finishIntentSwitch.
ContinueConfirm(w, cfg) ==
    IF ConfirmRecognized(w.activity.text)
    THEN finishIntentSwitch([w EXCEPT !.stack = Front(@)], cfg, ConfirmValue(w.activity.text))
    ELSE Outcome(w, "waiting", Undefined, "none")

\* JavaScript's truthiness of a dialog result.
Truthy(v) ==
    IF v.tag = "undefined" THEN FALSE
    ELSE IF v.tag = "boolean" THEN v.v
    ELSE IF v.tag = "string" THEN v.v # ""
    ELSE TRUE

\* The part of onContinueDialog after the confirm prompt's turn: what it
\* makes of the sub-flow's result.
AfterConfirm(result) ==
    IF result.status # "complete" THEN result
    ELSE IF Truthy(result.result)
         THEN [result EXCEPT !.result = Restart]
         ELSE [result EXCEPT !.status = "waiting"]

\* An auth result taken for a token whatever it is.
TokenAlways(result) == TRUE

\* result.status === DialogTurnStatus.complete && isProviderTokenResponse(result.result)
GotToken(result) ==
    result.status = "complete" /\ isProviderTokenResponse(result.result)

\* An inbound activity left as the user sent it.
TokenResponseDropped(activity, result) == activity

\* The inbound activity rewritten into the token response event.
TokenResponseEvent(activity, result) ==
    [activity EXCEPT !.type = "event", !.name = tokenResponseEventName,
                     !.value = result.result]

\* SkillDialog.onContinueDialog.  auth: how the auth sub-dialog answers when
\* it is the active child.
onContinueDialog(w, cfg, auth) ==
    LET authActive == Len(w.stack) > 0 /\ Last(w.stack) = authDialogId
        authResult == IF auth = "waiting" THEN DialogTurnResult("waiting", Undefined)
                      ELSE IF auth = "token"
                           THEN DialogTurnResult("complete", ProviderTokenResponse)
                           ELSE DialogTurnResult("complete", Undefined)
        gotToken == GotToken(authResult)
        w1 == IF authActive /\ auth # "waiting" THEN [w EXCEPT !.stack = Front(@)] ELSE w
        w2 == IF authActive /\ gotToken
              THEN [w1 EXCEPT !.activity = TokenResponseEvent(@, authResult)]
              ELSE w1
        dialogId == IF Len(w2.stack) > 0 THEN Last(w2.stack) ELSE ""
        forwarded == forwardToSkill(w2, cfg, w2.activity)
    IN  IF authActive /\ ~ gotToken
        THEN Outcome(w1, authResult.status, authResult.result, "none")
        ELSE IF dialogId = confirmSkillSwitchPrompt
             THEN AfterConfirm(ContinueConfirm(w2, cfg))
             ELSE (CHOOSE y5 \in {(
                     [f EXCEPT !.w = IF f.status = "error" THEN @ ELSE disconnect(@)]) :
                   f \in {forwarded}} : TRUE)

\* SkillDialog.onBeginDialog
onBeginDialog(w, cfg, ctx, options) ==
  (CHOOSE y6 \in {(
    LET w1 == [w EXCEPT !.activity = prep.activity]
        forwarded == forwardToSkill(w1, cfg, prep.activity)
    IN  IF prep.threw THEN Outcome(w1, "error", Undefined, "ActionNotFound")
        ELSE (CHOOSE y7 \in {(
                [f EXCEPT !.w = IF f.status = "error" THEN @ ELSE disconnect(@)]) :
              f \in {forwarded}} : TRUE)) :
    prep \in {PrepareActivity(cfg.manifest, ctx, w.activity, options)}} : TRUE)

\* The reasons the host ends a dialog with, and the activity of that turn.
EndReasons == {"cancelCalled", "endCalled"}
EndInbound == {Message("cancel", "bot", Undefined)}

\* A dialog that tells the skill nothing when it is ended.
NotifiesNever(reason) == FALSE

\* reason === DialogReason.cancelCalled (skillTransport is always defined)
NotifiesSkill(reason) == reason = "cancelCalled"

\* SkillDialog.endDialog(context, instance, reason): on cancellation the
\* skill is told to cancel its dialogs, then ComponentDialog.endDialog
\* cancels the inner dialogs.
endDialog(w, cfg, reason) ==
    CHOOSE y \in {(
        LET w1 == IF NotifiesSkill(reason) THEN cancelled.w ELSE w
            w2 == [w1 EXCEPT !.stack = IF reason = "cancelCalled" THEN <<>> ELSE @,
                             !.log = Append(@, [step |-> "teardown", what |-> reason])]
        IN  IF NotifiesSkill(reason) /\ ~ cancelled.ok
            THEN Outcome(cancelled.w, "error", Undefined, cancelled.error)
            ELSE Outcome(w2, "ended", Undefined, "none")) :
      cancelled \in {IF NotifiesSkill(reason)
                     THEN cancelRemoteDialogs(w, cfg.manifest)
                     ELSE [w |-> w, ok |-> TRUE, error |-> "none", handoff |-> Undefined]}} : TRUE

\* ------------------------------------------------------------------ actions

Cfg == [manifest |-> skillManifest, recognizer |-> skillIntentRecognizer]

NoTurn ==
    [op |-> "none", inbound |-> Undefined, options |-> Undefined, used |-> <<>>,
     reason |-> "none", auth |-> "none", saved |-> TRUE,
     stackBefore |-> <<>>, handoffBefore |-> Undefined, confirmBefore |-> Undefined,
     queueBefore |-> <<>>, phaseBefore |-> "Idle",
     status |-> "none", result |-> Undefined, error |-> "none",
     sent |-> <<>>, fwds |-> <<>>, telemetry |-> 0, endCalls |-> 0, log |-> <<>>,
     exchanges |-> <<>>, activity |-> Undefined,
     clientBefore |-> NoClient, created |-> 0, conversation |-> "none",
     surface |-> <<>>, tracked |-> <<>>, handled |-> FALSE]

NoUrlCall == [state |-> "none", endpoint |-> <<>>, url |-> <<>>]

NoClaimsCall == [state |-> "none", skills |-> {}, claims |-> Undefined, error |-> "none"]

\* The MainDialog of the skill before it is begun: nothing on its inner
\* stack, no turn made.
NoMain ==
    [phase |-> "Idle", stack |-> <<>>, isSkill |-> FALSE, op |-> "none",
     input |-> Undefined, stackBefore |-> <<>>, sent |-> <<>>, status |-> "none",
     error |-> "none", steps |-> <<>>, interrupted |-> FALSE]

\* The framework's part after a handler call.  The fields of the dialog and
\* of the transport are objects in memory and keep what the call did.  The
\* dialog stack is conversation state: the component is ended when the call
\* returns anything but waiting; when the call throws, the host either keeps
\* the stack as the call left it (saved) or the stack stored before the turn.
Commit(op, inbound, options, script, how, r) ==
    /\ queuedResponses' = r.w.queue
    /\ authDialogCancelled' = r.w.authCancelled
    /\ streamingTransportClient' = [r.w.client EXCEPT !.fresh = FALSE]
    /\ handoffActivity' = r.w.handoff
    /\ \E saved \in (IF r.status = "error" THEN BOOLEAN ELSE {TRUE}) :
          LET ends == r.status \in {"complete", "ended"}
              stack == IF ends THEN <<>> ELSE IF saved THEN r.w.stack ELSE innerStack
              confirm == IF saved THEN r.w.confirm ELSE confirmOptions
          IN  /\ innerStack' = stack
              /\ confirmOptions' =
                    IF \E i \in 1..Len(stack) : stack[i] = confirmSkillSwitchFlow
                    THEN confirm ELSE Undefined
              /\ phase' = IF ends THEN "Terminated"
                          ELSE IF saved THEN "Active" ELSE phase
              /\ turn' = [op |-> op, inbound |-> inbound, options |-> options,
                          used |-> SubSeq(script, 1, Len(script) - Len(r.w.script)),
                          reason |-> how.reason, auth |-> how.auth, saved |-> saved,
                          stackBefore |-> innerStack, handoffBefore |-> handoffActivity,
                          confirmBefore |-> confirmOptions,
                          queueBefore |-> queuedResponses, phaseBefore |-> phase,
                          status |-> r.status, result |-> r.result, error |-> r.error,
                          sent |-> r.w.sent, fwds |-> r.w.fwds,
                          telemetry |-> r.w.telemetry, endCalls |-> r.w.endCalls,
                          log |-> r.w.log, exchanges |-> r.w.exchanges,
                          activity |-> r.w.activity,
                          clientBefore |-> streamingTransportClient,
                          created |-> r.w.created, conversation |-> conversation,
                          surface |-> <<>>, tracked |-> <<>>, handled |-> FALSE]
    /\ handoffFrom' =
          IF \E i \in 1..Len(r.w.exchanges) :
                \E j \in 1..Len(r.w.exchanges[i].observed) :
                   r.w.exchanges[i].observed[j].kind = "handoff"
          THEN conversation ELSE handoffFrom
    /\ UNCHANGED <<skillManifest, skillIntentRecognizer, skillContext, skillTransport,
                   urlCall, serviceClientCredentials, conversation, parked,
                   claimsCall, main>>

\* The host begins the skill dialog: a new instance, with an empty inner stack.
OnBeginDialog ==
    /\ turn.op = "none"
    /\ phase \in {"Idle", "Terminated"}
    /\ \E inbound \in BeginInbound, options \in BeginOptions, script \in Scripts :
          LET w == [World(inbound, script) EXCEPT !.stack = <<>>, !.confirm = Undefined]
          IN  \E r \in {onBeginDialog(w, Cfg, skillContext, options)} :
                 Commit("begin", inbound, options, script,
                        [reason |-> "none", auth |-> "none"], r)

\* The host continues the active skill dialog with the next inbound activity.
OnContinueDialog ==
    /\ turn.op = "none"
    /\ phase = "Active"
    /\ \E inbound \in ContinueInbound, script \in Scripts :
       \E auth \in IF Len(innerStack) > 0 /\ Last(innerStack) = authDialogId
                   THEN {"waiting", "token", "cancelled"} ELSE {"none"} :
          \E r \in {onContinueDialog(World(inbound, script), Cfg, auth)} :
             Commit("continue", inbound, Undefined, script,
                    [reason |-> "none", auth |-> auth], r)

\* The host ends the active skill dialog (cancelAllDialogs, endDialog): the
\* framework calls SkillDialog.endDialog with the reason and then pops the
\* instance; an instance whose endDialog throws is not popped.
EndDialog ==
    /\ turn.op = "none"
    /\ phase = "Active"
    /\ \E inbound \in EndInbound, script \in Scripts, reason \in EndReasons :
          \E r \in {endDialog(World(inbound, script), Cfg, reason)} :
             Commit("end", inbound, Undefined, script,
                    [reason |-> reason, auth |-> "none"], r)

\* A conversation that has not begun the skill dialog.
NoConversation == [phase |-> "Idle", innerStack |-> <<>>, confirmOptions |-> Undefined]

\* After construction: nothing queued, no connection, no handoff recorded.
Init ==
    /\ skillManifest \in Manifests
    /\ skillIntentRecognizer \in Recognizers
    /\ skillContext \in SkillContexts
    /\ skillTransport = "SkillWebSocketTransport"
    /\ queuedResponses = <<>>
    /\ authDialogCancelled = FALSE
    /\ streamingTransportClient = NoClient
    /\ handoffActivity = Undefined
    /\ phase = "Idle"
    /\ innerStack = <<>>
    /\ confirmOptions = Undefined
    /\ turn = NoTurn
    /\ serviceClientCredentials = "credentials"
    /\ conversation = "A"
    /\ parked = NoConversation
    /\ handoffFrom = IF handoffActivity = Undefined THEN "none" ELSE "A"
    /\ claimsCall = NoClaimsCall
    /\ main = NoMain
    /\ urlCall = NoUrlCall

\* The adapter finishes the turn: the turn context and what was observed
\* through it are gone; the conversation and the dialog instance stay.
EndTurn ==
    /\ turn.op # "none"
    /\ turn' = NoTurn
    /\ UNCHANGED <<skillManifest, skillIntentRecognizer, skillContext, skillTransport,
                   queuedResponses, authDialogCancelled, streamingTransportClient,
                   handoffActivity, phase, innerStack, confirmOptions, urlCall,
                   serviceClientCredentials, conversation, parked, handoffFrom, claimsCall, main>>

\* DefaultAdapter.onTurnError: the handler call threw and the adapter's
\* handler runs with the error.  It sends the error's message and its stack
\* as trace activities through the turn context, then the localized
\* 'ErrorMessage' activity, and tracks the exception.
TraceActivity(text) ==
    Activity("trace", UndefStr, text, UndefStr, "user", Undefined, Undefined)

\* error.stack: the stack trace string of the error
Stack(error) == "Error: at SkillDialog"

ErrorMessage ==
    Activity("message", UndefStr, "ErrorMessage", UndefStr, "user", Undefined, Undefined)

onTurnError(error) ==
    [surface |-> <<TraceActivity(error), TraceActivity(Stack(error)), ErrorMessage>>,
     tracked |-> <<[exception |-> error]>>]

OnTurnError ==
    /\ turn.op # "none"
    /\ turn.status = "error"
    /\ ~ turn.handled
    /\ \E h \in {onTurnError(turn.error)} :
          turn' = [turn EXCEPT !.surface = h.surface, !.tracked = h.tracked,
                               !.handled = TRUE]
    /\ UNCHANGED <<skillManifest, skillIntentRecognizer, skillContext, skillTransport,
                   queuedResponses, authDialogCancelled, streamingTransportClient,
                   handoffActivity, phase, innerStack, confirmOptions, urlCall,
                   serviceClientCredentials, conversation, parked, handoffFrom, claimsCall, main>>

Next == OnBeginDialog \/ OnContinueDialog \/ EndDialog \/ OnTurnError \/ EndTurn

Spec == Init /\ [][Next]_vars

\* The conversation as the framework holds it once the confirm sub-flow has
\* been begun (innerDc.beginDialog(confirmSkillSwitchFlow, options)) and the
\* turn that began it is over: the prompt is the active child, waiting for
\* the user's answer; the connection was made on an earlier turn, and an
\* earlier invocation may have left its handoff with the transport.
SwitchUserInputs ==
    {Activity("message", UndefStr, "book a room", "book a room", "bot", Undefined, Undefined),
     Activity("event", "startDay", UndefStr, UndefStr, "bot", Undefined, Undefined)}

InitSwitch ==
    /\ skillManifest = Calendar
    /\ skillIntentRecognizer =
          [tag |-> "recognizer", answer |-> "email", confirmIntentSwitch |-> TRUE]
    /\ skillContext \in SkillContexts
    /\ queuedResponses = <<>>
    /\ authDialogCancelled = FALSE
    /\ streamingTransportClient =
          EarlierClient(skillManifest)
    /\ handoffActivity \in {Undefined, HandoffPlain}
    /\ phase = "Active"
    /\ innerStack = <<confirmSkillSwitchFlow, confirmSkillSwitchPrompt>>
    /\ \E u \in SwitchUserInputs :
          confirmOptions =
             [fallbackHandledEvent |->
                 [CreateReply(u) EXCEPT !.type = "event", !.name = fallbackHandledEventName],
              targetIntent |-> "email", userInputActivity |-> u]
    /\ turn = NoTurn
    /\ serviceClientCredentials = "credentials"
    /\ conversation = "A"
    /\ parked = NoConversation
    /\ handoffFrom = IF handoffActivity = Undefined THEN "none" ELSE "A"
    /\ claimsCall = NoClaimsCall
    /\ main = NoMain
    /\ skillTransport = "SkillWebSocketTransport"
    /\ urlCall = NoUrlCall

SpecSwitch == InitSwitch /\ [][Next]_vars

\* The conversation as the framework holds it once the token request handler
\* has begun the auth sub-dialog (dialogContext.beginDialog(authDialog.id))
\* and the sub-dialog waits for the user: it is the active child; the
\* connection was made on an earlier turn.
InitAuth ==
    /\ skillManifest \in Manifests
    /\ skillIntentRecognizer \in Recognizers
    /\ skillContext = {}
    /\ skillTransport = "SkillWebSocketTransport"
    /\ queuedResponses = <<>>
    /\ authDialogCancelled = FALSE
    /\ streamingTransportClient =
          EarlierClient(skillManifest)
    /\ handoffActivity \in {Undefined, HandoffPlain}
    /\ phase = "Active"
    /\ innerStack = <<authDialogId>>
    /\ confirmOptions = Undefined
    /\ turn = NoTurn
    /\ serviceClientCredentials = "credentials"
    /\ conversation = "A"
    /\ parked = NoConversation
    /\ handoffFrom = IF handoffActivity = Undefined THEN "none" ELSE "A"
    /\ claimsCall = NoClaimsCall
    /\ main = NoMain
    /\ urlCall = NoUrlCall

SpecAuth == InitAuth /\ [][Next]_vars

\* The events the callback handlers push on queuedResponses: the token
\* response event of getTokenRequestCallback and the fallback event of
\* getFallbackCallback.
OtherTokenResponse == [tag |-> "ProviderTokenResponse", token |-> "other"]

QueuedEvents ==
    {[CreateReply(Undefined) EXCEPT !.type = "event", !.name = tokenResponseEventName,
                                    !.value = resultObj] :
        resultObj \in {ProviderTokenResponse, OtherTokenResponse}}
    \cup {[CreateReply(Undefined) EXCEPT !.type = "event", !.name = fallbackEventName]}

\* A SkillDialog constructed with a transport of the host's own, which
\* resolves with undefined when no handoff was recorded, at the start of a
\* turn with events waiting in queuedResponses.
InitDrain ==
    /\ skillManifest = Calendar
    /\ skillIntentRecognizer \in {Undefined,
          [tag |-> "recognizer", answer |-> "email", confirmIntentSwitch |-> TRUE]}
    /\ skillContext = {}
    /\ skillTransport = "supplied"
    /\ queuedResponses \in SeqsUpTo(QueuedEvents, MaxQueued)
    /\ authDialogCancelled = FALSE
    /\ streamingTransportClient = NoClient
    /\ handoffActivity = Undefined
    /\ phase = "Idle"
    /\ innerStack = <<>>
    /\ confirmOptions = Undefined
    /\ turn = NoTurn
    /\ serviceClientCredentials = "credentials"
    /\ conversation = "A"
    /\ parked = NoConversation
    /\ handoffFrom = IF handoffActivity = Undefined THEN "none" ELSE "A"
    /\ claimsCall = NoClaimsCall
    /\ main = NoMain
    /\ urlCall = NoUrlCall

SpecDrain == InitDrain /\ [][Next]_vars

\* Two conversations of the same bot use the same skill.  The bot holds one
\* SkillDialog per skill and the dialog one transport: their fields are
\* shared.  The dialog stack is conversation state, loaded by the adapter
\* for the conversation of the incoming activity.
Conversations == {"A", "B"}

SwitchConversation ==
    /\ turn.op = "none"
    /\ conversation' = CHOOSE other \in Conversations : other # conversation
    /\ parked' = [phase |-> phase, innerStack |-> innerStack,
                  confirmOptions |-> confirmOptions]
    /\ phase' = parked.phase
    /\ innerStack' = parked.innerStack
    /\ confirmOptions' = parked.confirmOptions
    /\ UNCHANGED <<skillManifest, skillIntentRecognizer, skillContext, skillTransport,
                   queuedResponses, authDialogCancelled, streamingTransportClient,
                   handoffActivity, turn, urlCall, serviceClientCredentials,
                   handoffFrom, claimsCall, main>>

InitConversations ==
    /\ skillManifest = Calendar
    /\ skillIntentRecognizer = Undefined
    /\ skillContext = {}
    /\ skillTransport = "SkillWebSocketTransport"
    /\ queuedResponses = <<>>
    /\ authDialogCancelled = FALSE
    /\ streamingTransportClient = NoClient
    /\ handoffActivity = Undefined
    /\ phase = "Idle"
    /\ innerStack = <<>>
    /\ confirmOptions = Undefined
    /\ turn = NoTurn
    /\ urlCall = NoUrlCall
    /\ serviceClientCredentials = "credentials"
    /\ conversation = "A"
    /\ parked = NoConversation
    /\ handoffFrom = "none"
    /\ claimsCall = NoClaimsCall
    /\ main = NoMain

NextConversations == Next \/ SwitchConversation

SpecConversations == InitConversations /\ [][NextConversations]_vars

\* The configuration the host sets the skill up with: a manifest whose
\* endpoint may be missing, and credentials that may be missing.
CalendarNoEndpoint == [Calendar EXCEPT !.endpoint = <<>>]

\* The constructor of SkillDialog: it throws when the manifest or the
\* credentials are undefined and checks nothing else of the manifest.
Constructor ==
    /\ phase = "Setup"
    /\ phase' = IF skillManifest = Undefined \/ serviceClientCredentials = UndefStr
                THEN "Rejected" ELSE "Idle"
    /\ UNCHANGED <<skillManifest, skillIntentRecognizer, skillContext, skillTransport,
                   queuedResponses, authDialogCancelled, streamingTransportClient,
                   handoffActivity, innerStack, confirmOptions, turn, urlCall,
                   serviceClientCredentials, conversation, parked, handoffFrom, claimsCall, main>>

InitSetup ==
    /\ skillManifest \in {Calendar, Email, CalendarNoEndpoint, Undefined}
    /\ skillIntentRecognizer = Undefined
    /\ skillContext \in SkillContexts
    /\ skillTransport = "SkillWebSocketTransport"
    /\ queuedResponses = <<>>
    /\ authDialogCancelled = FALSE
    /\ streamingTransportClient = NoClient
    /\ handoffActivity = Undefined
    /\ phase = "Setup"
    /\ innerStack = <<>>
    /\ confirmOptions = Undefined
    /\ turn = NoTurn
    /\ urlCall = NoUrlCall
    /\ serviceClientCredentials \in {"credentials", UndefStr}
    /\ conversation = "A"
    /\ parked = NoConversation
    /\ handoffFrom = "none"
    /\ claimsCall = NoClaimsCall
    /\ main = NoMain

NextSetup == Constructor \/ Next

SpecSetup == InitSetup /\ [][NextSetup]_vars

\* ------------------------------------------------------ claims validation

emulatorAudience == "https://api.botframework.com"

\* JwtTokenValidation.getAppIdFromClaims: the appid claim of a version 1.0
\* (or unversioned) token, the azp claim of a version 2.0 token.
getAppIdFromClaims(claims) ==
    IF claims.ver \in {UndefStr, "1.0"} THEN claims.appid
    ELSE IF claims.ver = "2.0" THEN claims.azp
    ELSE UndefStr

\* SkillValidation.isSkillClaim: a versioned token whose audience is an app
\* (not the emulator) and whose app id differs from the audience.
isSkillClaim(claims) ==
    /\ claims.ver # UndefStr
    /\ claims.aud # UndefStr
    /\ claims.aud # emulatorAudience
    /\ getAppIdFromClaims(claims) # UndefStr
    /\ getAppIdFromClaims(claims) # claims.aud

\* The constructor of AllowedCallersClaimsValidator: the statement that
\* loads the app ids is a comment, allowedSkills stays unassigned.
AllowedCallersClaimsValidator(skillsConfig) == [allowedSkills |-> Undefined]

\* Array.prototype.includes: a boolean
includes(array, element) == Boolean(element \in array)

\* AllowedCallersClaimsValidator.validateClaims
validateClaims(validator, claims) ==
    IF isSkillClaim(claims)
    THEN IF validator.allowedSkills = Undefined
         THEN [state |-> "threw", error |-> "TypeError"]
         ELSE IF includes(validator.allowedSkills, getAppIdFromClaims(claims)) # Undefined
              THEN [state |-> "threw", error |-> "Received a request from an application"]
              ELSE [state |-> "returned", error |-> "none"]
    ELSE [state |-> "returned", error |-> "none"]

\* The skills of the configuration and the claim sets of incoming requests.
SkillsConfigurations == SUBSET {"calendar-app", "email-app"}

ClaimSets ==
    {[ver |-> ver, aud |-> aud,
      appid |-> IF ver = "2.0" THEN UndefStr ELSE id,
      azp |-> IF ver = "2.0" THEN id ELSE UndefStr] :
        ver \in {UndefStr, "1.0", "2.0"},
        aud \in {UndefStr, emulatorAudience, "host-app"},
        id \in {UndefStr, "calendar-app", "email-app", "unknown-app", "host-app"}}

\* The host is set up with its skills and a request with claims arrives.
InitClaims ==
    /\ skillManifest = Calendar
    /\ skillIntentRecognizer = Undefined
    /\ skillContext = {}
    /\ skillTransport = "SkillWebSocketTransport"
    /\ queuedResponses = <<>>
    /\ authDialogCancelled = FALSE
    /\ streamingTransportClient = NoClient
    /\ handoffActivity = Undefined
    /\ phase = "Idle"
    /\ innerStack = <<>>
    /\ confirmOptions = Undefined
    /\ turn = NoTurn
    /\ urlCall = NoUrlCall
    /\ serviceClientCredentials = "credentials"
    /\ conversation = "A"
    /\ parked = NoConversation
    /\ handoffFrom = "none"
    /\ main = NoMain
    /\ \E skills \in SkillsConfigurations, claims \in ClaimSets :
          claimsCall = [state |-> "pending", skills |-> skills, claims |-> claims,
                        error |-> "none"]

ValidateClaims ==
    /\ claimsCall.state = "pending"
    /\ \E r \in {validateClaims(AllowedCallersClaimsValidator(claimsCall.skills),
                                 claimsCall.claims)} :
          claimsCall' = [claimsCall EXCEPT !.state = r.state, !.error = r.error]
    /\ UNCHANGED <<skillManifest, skillIntentRecognizer, skillContext, skillTransport,
                   queuedResponses, authDialogCancelled, streamingTransportClient,
                   handoffActivity, phase, innerStack, confirmOptions, turn, urlCall,
                   serviceClientCredentials, conversation, parked, handoffFrom, main>>

NextClaims == ValidateClaims

SpecClaims == InitClaims /\ [][NextClaims]_vars

\* ------------------------------------------------------ the skill's MainDialog

\* Ids of the dialogs MainDialog adds to itself.
mainWaterfall == "MainDialog"
textPrompt == "TextPrompt"
sampleDialog == "SampleDialog"
sampleAction == "SampleAction"

\* An entry of the inner dialog stack; stepIndex is the state of a waterfall.
Instance(id, stepIndex) == [id |-> id, stepIndex |-> stepIndex]

\* What a call inside a MainDialog turn works on and what it gives.
MainWorld(input) ==
    [stack |-> main.stack, isSkill |-> main.isSkill, activity |-> input,
     generalLuisResult |-> Undefined, sent |-> <<>>, steps |-> <<>>]

MainOutcome(m, status, error) == [m |-> m, status |-> status, error |-> error]

\* String.prototype.trim().length > 0
NonBlank(text) == text # ""

\* LuisRecognizer.topIntent: 'None' for a missing result
topIntent(result) == IF result = Undefined THEN "None" ELSE result.intent

Say(m, template) == [m EXCEPT !.sent = Append(@, template)]

\* WaterfallDialog.runStep with the steps introStep, routeStep, finalStep;
\* stepContext.next() resumes the waterfall with the following step, and
\* DialogContext.endDialog pops the active dialog and resumes its parent.
RECURSIVE runStep(_, _)
RECURSIVE MainEndDialog(_)

\* MainDialog.introStep
introStep(m) ==
    IF m.isSkill THEN runStep(m, 1)
    ELSE MainOutcome([Say(m, "FirstPromptMessage") EXCEPT
                         !.stack = Append(@, Instance(textPrompt, 0))],
                     "waiting", "none")

\* MainDialog.finalStep
finalStep(m) ==
    IF m.isSkill THEN MainEndDialog(Say(m, "endOfConversation"))
    ELSE MainOutcome([Say(m, "CompletedMessage") EXCEPT
                         !.stack = Append(Front(@), Instance(sampleDialog, 0))],
                     "waiting", "none")

\* MainDialog.routeStep
routeStep(m) ==
    IF m.activity.text = UndefStr THEN MainOutcome(m, "error", "TypeError")
    ELSE IF NonBlank(m.activity.text)
    THEN IF m.activity.skillIntent = "Sample"
         THEN \* beginDialog(sampleDialog.id); break; then stepContext.next():
              \* the active dialog is no waterfall, it is ended and the
              \* waterfall resumes with its next step.
              MainEndDialog([Say(m, "SamplePrompt") EXCEPT
                                !.stack = Append(@, Instance(sampleDialog, 0))])
         ELSE runStep(Say(m, "UnsupportedMessage"), 2)
    ELSE IF m.activity.type = "event"
    THEN IF m.activity.name = sampleAction
         THEN MainOutcome([m EXCEPT !.stack = Append(@, Instance(sampleAction, 0))],
                          "waiting", "none")
         ELSE runStep(Say(m, "trace: Unknown Event"), 2)
    ELSE runStep(Say(m, "trace: An event with no name"), 2)

runStep(m, index) ==
    IF index < 3
    THEN LET at == [m EXCEPT !.stack[Len(m.stack)].stepIndex = index,
                             !.steps = Append(@, index)]
         IN  IF index = 0 THEN introStep(at)
             ELSE IF index = 1 THEN routeStep(at)
             ELSE finalStep(at)
    ELSE MainEndDialog(m)

MainEndDialog(m) ==
    LET popped == [m EXCEPT !.stack = Front(@)]
    IN  IF Len(m.stack) = 0 THEN MainOutcome(m, "complete", "none")
        ELSE IF Len(popped.stack) = 0 THEN MainOutcome(popped, "complete", "none")
        ELSE IF Last(popped.stack).id = mainWaterfall
             THEN runStep(popped, Last(popped.stack).stepIndex + 1)
             ELSE MainOutcome(popped, "waiting", "none")

\* innerDc.beginDialog(this.initialDialogId)
BeginInitialDialog(m) ==
    runStep([m EXCEPT !.stack = Append(@, Instance(mainWaterfall, 0))], 0)

\* innerDc.repromptDialog(): the active prompt sends its prompt again
repromptDialog(m) ==
    IF Len(m.stack) > 0 /\ Last(m.stack).id = textPrompt
    THEN Say(m, "FirstPromptMessage") ELSE m

\* innerDc.cancelAllDialogs()
cancelAllDialogs(m) == [m EXCEPT !.stack = <<>>]

\* MainDialog.interruptDialog: the outcome of the calls it makes and whether
\* it interrupted.
interruptDialog(m) ==
    IF m.activity.type = "message" /\ m.activity.text = UndefStr
    THEN [out |-> MainOutcome(m, "error", "TypeError"), interrupted |-> FALSE]
    ELSE IF m.activity.type = "message" /\ NonBlank(m.activity.text)
    THEN IF m.generalLuisResult = Undefined
         THEN [out |-> MainOutcome(m, "error", "TypeError"), interrupted |-> FALSE]
         ELSE IF m.generalLuisResult.score > 5
              THEN IF topIntent(m.generalLuisResult) = "Cancel"
                   THEN [out |-> BeginInitialDialog(
                                    cancelAllDialogs(Say(m, "CancelledMessage"))),
                         interrupted |-> TRUE]
                   ELSE IF topIntent(m.generalLuisResult) = "Help"
                   THEN [out |-> MainOutcome(repromptDialog(Say(m, "HelpMessage")),
                                             "waiting", "none"),
                         interrupted |-> TRUE]
                   ELSE IF topIntent(m.generalLuisResult) = "Logout"
                   THEN [out |-> BeginInitialDialog(
                                    cancelAllDialogs(
                                       Say(cancelAllDialogs(m), "LogoutMessage"))),
                         interrupted |-> TRUE]
                   ELSE [out |-> MainOutcome(m, "waiting", "none"), interrupted |-> FALSE]
              ELSE [out |-> MainOutcome(m, "waiting", "none"), interrupted |-> FALSE]
    ELSE [out |-> MainOutcome(m, "waiting", "none"), interrupted |-> FALSE]

\* What onBeginDialog and onContinueDialog do with the interruption check:
\* EndOfTurn when interrupted, else the base class goes on.
AfterInterrupt(i, base(_)) ==
    IF i.out.status = "error" THEN [out |-> i.out, interrupted |-> FALSE]
    ELSE IF i.interrupted THEN [out |-> MainOutcome(i.out.m, "waiting", "none"),
                                interrupted |-> TRUE]
    ELSE [out |-> base(i.out.m), interrupted |-> FALSE]

\* MainDialog.onBeginDialog: runs the general model, then the check.
MainOnBeginDialog(m) ==
    IF m.activity.type = "message"
    THEN AfterInterrupt(
            interruptDialog([m EXCEPT !.generalLuisResult = m.activity.general]),
            BeginInitialDialog)
    ELSE [out |-> BeginInitialDialog(m), interrupted |-> FALSE]

\* ComponentDialog.onContinueDialog: innerDc.continueDialog().  A text
\* prompt completes on a message with text and resumes the waterfall; the
\* sample dialogs go on waiting or complete.
ContinueInner(m, childCompletes) ==
    IF Len(m.stack) = 0 THEN MainOutcome(m, "complete", "none")
    ELSE IF Last(m.stack).id = textPrompt
         THEN IF m.activity.type = "message" /\ m.activity.text # UndefStr
                 /\ NonBlank(m.activity.text)
              THEN MainEndDialog(m)
              ELSE MainOutcome(Say(m, "FirstPromptMessage"), "waiting", "none")
         ELSE IF Last(m.stack).id = mainWaterfall
              THEN runStep(m, Last(m.stack).stepIndex + 1)
              ELSE IF childCompletes THEN MainEndDialog(m)
                   ELSE MainOutcome(m, "waiting", "none")

\* MainDialog.onContinueDialog: the general model is not run here.
MainOnContinueDialog(m, childCompletes) ==
    IF m.activity.type = "message"
    THEN AfterInterrupt(interruptDialog(m),
                        LAMBDA mm : ContinueInner(mm, childCompletes))
    ELSE [out |-> ContinueInner(m, childCompletes), interrupted |-> FALSE]

\* The activities the skill receives: a message or an event, with what the
\* general model and the skill model answer for it (scores in tenths).
GeneralResults ==
    {Undefined}
    \cup {[intent |-> i, score |-> sc] :
            i \in {"Cancel", "Help", "Logout", "None"}, sc \in {3, 9}}

MainInputs ==
    {[type |-> "message", name |-> UndefStr, text |-> t, general |-> g, skillIntent |-> k] :
        t \in {UndefStr, "", "cancel that"}, g \in GeneralResults,
        k \in {"Sample", "None"}}
    \cup {[type |-> "event", name |-> n, text |-> t, general |-> Undefined,
           skillIntent |-> "None"] :
            n \in {UndefStr, sampleAction}, t \in {UndefStr, ""}}

\* The framework's part after a handler call of MainDialog: the component
\* ends when the call returns anything but waiting; a call that threw
\* leaves the stored stack.
MainCommit(op, input, r) ==
    main' = [phase |-> IF r.out.status = "error" THEN main.phase
                       ELSE IF r.out.status = "waiting" THEN "Active" ELSE "Idle",
             stack |-> IF r.out.status = "error" THEN main.stack
                       ELSE IF r.out.status = "waiting" THEN r.out.m.stack ELSE <<>>,
             isSkill |-> main.isSkill, op |-> op, input |-> input,
             stackBefore |-> main.stack, sent |-> r.out.m.sent,
             status |-> r.out.status, error |-> r.out.error,
             steps |-> r.out.m.steps, interrupted |-> r.interrupted]

MainVarsUnchanged ==
    UNCHANGED <<skillManifest, skillIntentRecognizer, skillContext, skillTransport,
                queuedResponses, authDialogCancelled, streamingTransportClient,
                handoffActivity, phase, innerStack, confirmOptions, turn, urlCall,
                serviceClientCredentials, conversation, parked, handoffFrom,
                claimsCall>>

MainBegin ==
    /\ main.phase = "Idle"
    /\ \E input \in MainInputs :
          \E r \in {MainOnBeginDialog(MainWorld(input))} :
             MainCommit("begin", input, r)
    /\ MainVarsUnchanged

MainContinue ==
    /\ main.phase = "Active"
    /\ \E input \in MainInputs, childCompletes \in BOOLEAN :
          \E r \in {MainOnContinueDialog(MainWorld(input), childCompletes)} :
             MainCommit("continue", input, r)
    /\ MainVarsUnchanged

InitMain ==
    /\ skillManifest = Calendar
    /\ skillIntentRecognizer = Undefined
    /\ skillContext = {}
    /\ skillTransport = "SkillWebSocketTransport"
    /\ queuedResponses = <<>>
    /\ authDialogCancelled = FALSE
    /\ streamingTransportClient = NoClient
    /\ handoffActivity = Undefined
    /\ phase = "Idle"
    /\ innerStack = <<>>
    /\ confirmOptions = Undefined
    /\ turn = NoTurn
    /\ urlCall = NoUrlCall
    /\ serviceClientCredentials = "credentials"
    /\ conversation = "A"
    /\ parked = NoConversation
    /\ handoffFrom = "none"
    /\ claimsCall = NoClaimsCall
    /\ \E isSkill \in BOOLEAN : main = [NoMain EXCEPT !.isSkill = isSkill]

NextMain == MainBegin \/ MainContinue

SpecMain == InitMain /\ [][NextMain]_vars

\* ------------------------------------------------------ endpoint addresses

\* Endpoints of skill manifests: a scheme (or none, or a near miss) and the
\* rest of the address, which may itself contain a scheme.
Schemes ==
    {httpPrefix, httpsPrefix, wsPrefix, wssPrefix, <<>>,
     <<"f", "t", "p", ":", "/", "/">>,
     <<"H", "T", "T", "P", ":", "/", "/">>,
     <<"h", "t", "t", "p", ":", "/">>,
     <<"x">> \o httpPrefix}

Addresses ==
    {<<>>, <<"a">>, <<"a", "/", "x">>, <<"/", "/">>, <<"a", ":", "8", "0">>,
     <<"a", "/">> \o httpPrefix,
     <<"a", "?">> \o httpsPrefix \o <<"b">>,
     <<"a", "/">> \o wsPrefix \o httpPrefix}

Endpoints == {scheme \o address : scheme \in Schemes, address \in Addresses}

\* The transport is about to open a connection to an endpoint.
InitUrl ==
    /\ skillManifest = Calendar
    /\ skillIntentRecognizer = Undefined
    /\ skillContext = {}
    /\ skillTransport = "SkillWebSocketTransport"
    /\ queuedResponses = <<>>
    /\ authDialogCancelled = FALSE
    /\ streamingTransportClient = NoClient
    /\ handoffActivity = Undefined
    /\ phase = "Idle"
    /\ innerStack = <<>>
    /\ confirmOptions = Undefined
    /\ turn = NoTurn
    /\ serviceClientCredentials = "credentials"
    /\ conversation = "A"
    /\ parked = NoConversation
    /\ handoffFrom = IF handoffActivity = Undefined THEN "none" ELSE "A"
    /\ claimsCall = NoClaimsCall
    /\ main = NoMain
    /\ \E endpoint \in Endpoints :
          urlCall = [state |-> "pending", endpoint |-> endpoint, url |-> <<>>]

EnsureWebSocketUrl ==
    /\ urlCall.state = "pending"
    /\ urlCall' = ensureWebSocketUrl(urlCall.endpoint)
    /\ UNCHANGED <<skillManifest, skillIntentRecognizer, skillContext, skillTransport,
                   queuedResponses, authDialogCancelled, streamingTransportClient,
                   handoffActivity, phase, innerStack, confirmOptions, turn,
                   serviceClientCredentials, conversation, parked, handoffFrom, claimsCall, main>>

NextUrl == EnsureWebSocketUrl

SpecUrl == InitUrl /\ [][NextUrl]_vars

\* ------------------------------------------------------------------ claims

\* The request of the turn went out and the skill answered it.
FirstExchange ==
    /\ turn.op # "none"
    /\ Len(turn.used) > 0
    /\ turn.used[1].fail = "none"
    /\ Len(turn.sent) > 0

\* The skill raised a callback of this kind during the turn's first request.
Raised(kind) ==
    /\ FirstExchange
    /\ \E i \in 1..Len(turn.used[1].callbacks) : turn.used[1].callbacks[i].kind = kind

\* The entries of the SkillContext whose name is one of names.
ContextEntries(names) == {p \in skillContext : p[1] \in names}

SlotNames(slots) == {slots[i] : i \in 1..Len(slots)}

ActionsNamed(id) ==
    {i \in 1..Len(skillManifest.actions) : skillManifest.actions[i].id = id}

\* C1: a begin with a non-empty action id that resolves to an action A sends
\* the skill a semantic action whose entities are exactly the SkillContext
\* entries named by a slot of A.
C1_SlotsAreExactSubset ==
    (/\ turn.op = "begin"
     /\ turn.options # Undefined
     /\ turn.options.action # ""
     /\ ActionsNamed(turn.options.action) # {}
     /\ Len(turn.sent) > 0)
    => /\ turn.sent[1].semanticAction # Undefined
       /\ \A i \in ActionsNamed(turn.options.action) :
             turn.sent[1].semanticAction.entities =
                ContextEntries(SlotNames(skillManifest.actions[i].slots))

\* C2: a begin with an empty action id (or no options) matches the union of
\* the slots of all actions, each name once, and sends the skill the
\* SkillContext entries named by that union.
C2_EmptyActionUsesUnion ==
    (/\ turn.op = "begin"
     /\ (turn.options = Undefined \/ turn.options.action = "")
     /\ Len(turn.sent) > 0)
    => LET union == UNION {SlotNames(skillManifest.actions[i].slots) :
                              i \in 1..Len(skillManifest.actions)}
           matched == DistinctSlots(skillManifest)
       IN  /\ SlotNames(matched) = union
           /\ Cardinality(union) = Len(matched)
           /\ turn.sent[1].semanticAction # Undefined
           /\ turn.sent[1].semanticAction.entities = ContextEntries(union)

\* C3: a begin whose non-empty action id matches no action of the manifest
\* fails with ActionNotFound and sends nothing, whatever the inbound
\* activity carries.
C3_UnknownActionFailsBeforeSend ==
    (/\ turn.op = "begin"
     /\ turn.options # Undefined
     /\ turn.options.action # ""
     /\ ActionsNamed(turn.options.action) = {})
    => /\ turn.status = "error"
       /\ turn.error = "ActionNotFound"
       /\ turn.sent = <<>>
       /\ turn.fwds = <<>>

\* C4: when the transport yields a handoff to a forward of the dialog, the
\* invocation ends and the result is the entities of the handoff's semantic
\* action, or nothing when the handoff has no semantic action.
C4_HandoffEndsWithEntities ==
    (/\ turn.op # "none"
     /\ Len(turn.fwds) > 0
     /\ Last(turn.fwds).handoff # Undefined)
    => /\ turn.status = "complete"
       /\ phase = "Terminated"
       /\ innerStack = <<>>
       /\ turn.result =
             IF Last(turn.fwds).handoff.semanticAction # Undefined
             THEN [tag |-> "entities",
                   v |-> Last(turn.fwds).handoff.semanticAction.entities]
             ELSE Undefined

C4_Witness ==
    /\ Len(turn.fwds) > 0
    /\ Last(turn.fwds).handoff = HandoffWithEntities
    /\ turn.result = [tag |-> "entities", v |-> {<<"event", "created">>}]
    /\ phase = "Terminated"

\* C5: when a forward completes with no handoff and nothing queued, the
\* dialog returns waiting and the invocation stays active.
C5_NoHandoffWaits ==
    (/\ FirstExchange
     /\ Len(turn.fwds) > 0
     /\ turn.used[1].callbacks = <<>>
     /\ turn.handoffBefore = Undefined)
    => /\ turn.status = "waiting"
       /\ turn.error = "none"
       /\ phase = "Active"

\* C6: when the skill raises a fallback request and no recognizer is
\* configured, the next activity sent to the skill is the fallback-handled
\* event, and the fallback does not end the invocation.
C6_FallbackResentAsHandled ==
    (/\ Raised("fallback")
     /\ Len(turn.fwds) > 0
     /\ skillIntentRecognizer = Undefined)
    => /\ Len(turn.sent) >= 2
       /\ turn.sent[2].type = "event"
       /\ turn.sent[2].name = fallbackHandledEventName

\* C7: when the recognizer names another skill for a fallback request and
\* asks for confirmation, the confirm sub-flow is begun with that target and
\* the turn suspends with nothing more sent to any skill.
C7_FallbackBeginsConfirm ==
    (/\ Raised("fallback")
     /\ Len(turn.fwds) > 0
     /\ skillIntentRecognizer # Undefined
     /\ skillIntentRecognizer.answer \notin {UndefStr, skillManifest.id}
     /\ skillIntentRecognizer.confirmIntentSwitch)
    => /\ innerStack = <<confirmSkillSwitchFlow, confirmSkillSwitchPrompt>>
       /\ confirmOptions # Undefined
       /\ confirmOptions.targetIntent = skillIntentRecognizer.answer
       /\ turn.status = "waiting"
       /\ phase = "Active"
       /\ Len(turn.sent) = 1

\* The user's answer reached the confirm prompt in this turn, and no
\* request of the turn met a transport fault.
Answered(text) ==
    /\ turn.op = "continue"
    /\ turn.stackBefore = <<confirmSkillSwitchFlow, confirmSkillSwitchPrompt>>
    /\ turn.inbound.text = text
    /\ Len(turn.used) > 0
    /\ turn.used[1].fail = "none"

LogAt(step) == {i \in 1..Len(turn.log) : turn.log[i].step = step}

C10_FallbackSwitchesSilently ==
    (/\ Raised("fallback")
     /\ Len(turn.fwds) > 0
     /\ skillIntentRecognizer # Undefined
     /\ skillIntentRecognizer.answer \notin {UndefStr, skillManifest.id}
     /\ ~ skillIntentRecognizer.confirmIntentSwitch)
    => /\ \E i \in 1..Len(turn.sent) : turn.sent[i].name = cancelAllSkillDialogsEventName
       /\ LogAt("prompt") = {}
       /\ turn.status = "complete"
       /\ turn.result = [tag |-> "string", v |-> skillIntentRecognizer.answer]

\* C11: when the recognizer answers the current skill's id or nothing for a
\* fallback request, the fallback-handled event is resent to the current
\* skill and no switch is started: no cancel event, no confirm prompt.
C11_SameOrNoIntentResends ==
    (/\ Raised("fallback")
     /\ Len(turn.fwds) > 0
     /\ skillIntentRecognizer # Undefined
     /\ skillIntentRecognizer.answer \in {UndefStr, skillManifest.id})
    => /\ Len(turn.sent) >= 2
       /\ turn.sent[2].name = fallbackHandledEventName
       /\ \A i \in 1..Len(turn.sent) : turn.sent[i].name # cancelAllSkillDialogsEventName
       /\ LogAt("prompt") = {}
       /\ \A i \in 1..Len(innerStack) : innerStack[i] # confirmSkillSwitchFlow

\* C12: ending the invocation with reason cancellation never fails: whatever
\* happens to the cancel call, the local teardown runs and the invocation is
\* ended.
C12_CancelFailureStaysInside ==
    (turn.op = "end" /\ turn.reason = "cancelCalled")
    => /\ turn.error = "none"
       /\ LogAt("teardown") # {}
       /\ phase = "Terminated"

\* C13: a dialog torn down for reason cancellation has sent the skill the
\* cancel-all-dialogs event before the teardown.
C13_CancelSentBeforeTeardown ==
    \A t \in LogAt("teardown") :
       turn.log[t].what = "cancelCalled"
       => \E c \in LogAt("send") :
             c < t /\ turn.log[c].what = cancelAllSkillDialogsEventName

C13_Witness ==
    /\ turn.op = "end"
    /\ turn.reason = "cancelCalled"
    /\ turn.status = "ended"
    /\ LogAt("teardown") # {}
    /\ Len(turn.sent) = 1
    /\ phase = "Terminated"

\* C14: an error raised while forwarding to the skill leaves no active
\* invocation behind: after the failing turn the dialog is ended.
C14_ErrorLeavesEndedState ==
    (turn.status = "error" /\ Len(turn.fwds) > 0)
    => /\ phase # "Active"
       /\ innerStack = <<>>

\* C15: endpoint normalization turns a leading http:// into ws:// and a
\* leading https:// into wss://, returns every other non-empty endpoint
\* unchanged, and changes nothing after the scheme.
C15_EndpointNormalization ==
    urlCall.state \in {"returned", "threw"}
    => LET endpoint == urlCall.endpoint
           rest(prefix) == SubSeq(endpoint, Len(prefix) + 1, Len(endpoint))
       IN  /\ endpoint # <<>> => urlCall.state = "returned"
           /\ startsWith(endpoint, httpPrefix)
                 => urlCall.url = wsPrefix \o rest(httpPrefix)
           /\ startsWith(endpoint, httpsPrefix)
                 => urlCall.url = wssPrefix \o rest(httpsPrefix)
           /\ (~ startsWith(endpoint, httpPrefix) /\ ~ startsWith(endpoint, httpsPrefix)
               /\ endpoint # <<>>)
                 => urlCall.url = endpoint

C15_Witness ==
    /\ urlCall.state = "returned"
    /\ urlCall.endpoint = httpPrefix \o <<"a", "/">> \o httpPrefix
    /\ urlCall.url = wsPrefix \o <<"a", "/">> \o httpPrefix

\* The handoff callbacks the skill raised during an exchange.
HandoffsObserved(exchange) ==
    {exchange.observed[k].activity :
        k \in {j \in 1..Len(exchange.observed) : exchange.observed[j].kind = "handoff"}}

\* C16: the transport returns a handoff only when a handoff callback was
\* observed during that exchange, and then returns that handoff; an exchange
\* that ends without one fails with the missing-handoff error.
C16_HandoffOnlyWhenObserved ==
    \A i \in 1..Len(turn.exchanges) :
       LET exchange == turn.exchanges[i]
       IN  /\ exchange.ok
                => /\ exchange.handoff # Undefined
                   /\ exchange.handoff \in HandoffsObserved(exchange)
           /\ (turn.used[1].fail = "none" /\ HandoffsObserved(exchange) = {})
                => /\ ~ exchange.ok
                   /\ exchange.error = "handoffActivity value is Undefined"

\* The exchanges of the turn whose request body was built and handed to the
\* connection.
Built == {i \in 1..Len(turn.exchanges) : turn.exchanges[i].body # Undefined}

\* C17 (as stated): the request body carries the skill's application id as
\* recipient, the caller's activity keeps that id through the send, and the
\* activity has its own recipient again when the call returns or fails.
C17_RecipientKeptThroughSend ==
    \A i \in Built :
       LET exchange == turn.exchanges[i]
       IN  /\ exchange.body.recipient = skillManifest.msaAppId
           /\ exchange.atSend.recipient = skillManifest.msaAppId
           /\ exchange.after = exchange.request

\* C17 (amended): the request body carries the skill's application id as
\* recipient; the caller's activity has its own recipient again as soon as
\* the body is built, before the send and so before any callback runs, and
\* still has it when the call returns or fails.
C17_RecipientRestoredBeforeSend ==
    \A i \in 1..Len(turn.exchanges) :
       LET exchange == turn.exchanges[i]
       IN  /\ i \in Built => exchange.body = [exchange.request EXCEPT
                                                !.recipient = skillManifest.msaAppId]
           /\ exchange.atSend = exchange.request
           /\ exchange.after = exchange.request

C17_Witness ==
    \E i \in Built :
       /\ turn.exchanges[i].request.recipient = "bot"
       /\ turn.exchanges[i].body.recipient = skillManifest.msaAppId
       /\ turn.exchanges[i].observed # <<>>
       /\ turn.exchanges[i].after.recipient = "bot"

\* The turn continued a dialog whose active child was the auth sub-dialog,
\* which answered in the given way.
AuthAnswered(answer) ==
    /\ turn.op = "continue"
    /\ Len(turn.stackBefore) > 0
    /\ Last(turn.stackBefore) = authDialogId
    /\ turn.auth = answer

\* C18: when the auth sub-dialog completes with a token in a continue, the
\* inbound activity becomes the token-response event carrying the token, and
\* that event, not the user's message, is what is forwarded to the skill.
C18_TokenResultForwardedAsEvent ==
    AuthAnswered("token")
    => LET event == [turn.inbound EXCEPT !.type = "event",
                                         !.name = tokenResponseEventName,
                                         !.value = ProviderTokenResponse]
       IN  /\ turn.activity = event
           /\ Len(turn.fwds) >= 1
           /\ turn.fwds[1].activity = event
           /\ \A i \in 1..Len(turn.sent) : turn.sent[i].type # "message"
           /\ Len(turn.sent) >= 1
                 => turn.sent[1] = [event EXCEPT !.recipient = skillManifest.msaAppId]

C18_Witness ==
    /\ AuthAnswered("token")
    /\ Len(turn.sent) = 1
    /\ turn.sent[1].name = tokenResponseEventName
    /\ turn.sent[1].value = ProviderTokenResponse
    /\ turn.inbound.type = "message"

\* C19: when the auth sub-dialog is the active child and does not complete
\* with a token, continue returns the sub-dialog's result as it is and
\* nothing is sent to the skill.
C19_NoTokenReturnsAuthResult ==
    \A answer \in {"waiting", "cancelled"} :
       AuthAnswered(answer)
       => /\ turn.sent = <<>>
          /\ turn.fwds = <<>>
          /\ turn.exchanges = <<>>
          /\ turn.error = "none"
          /\ turn.status = (IF answer = "waiting" THEN "waiting" ELSE "complete")
          /\ turn.result = Undefined

C19_Witness ==
    /\ AuthAnswered("cancelled")
    /\ turn.status = "complete"
    /\ turn.sent = <<>>
    /\ phase = "Terminated"

\* The forwards of the turn that follow the forward of the turn's own
\* activity: the resends of the drain loop, in the order they were made.
Resends == SubSeq(turn.fwds, 2, Len(turn.fwds))

Answerable ==
    {i \in 1..Len(turn.used[1].callbacks) :
        \/ turn.used[1].callbacks[i].kind = "fallback"
        \/ /\ turn.used[1].callbacks[i].kind = "token"
           /\ turn.used[1].callbacks[i].auth = "token"}

\* C21: every callback request the transport surfaces is consumed exactly
\* once: it is answered by one resend within the turn that surfaced it, and
\* nothing is left in the queue when that turn returns.
C21_CallbacksConsumedOnce ==
    (FirstExchange /\ Len(turn.fwds) > 0 /\ turn.queueBefore = <<>>)
    => /\ Len(Resends) = Cardinality(Answerable)
       /\ queuedResponses = <<>>

\* C22: two conversations that use the same skill are independent: a
\* handoff a forward returns to a turn was recorded by a turn of the same
\* conversation, never by a turn of the other one.
C22_ConversationsIndependent ==
    \A i \in 1..Len(turn.fwds) :
        turn.fwds[i].handoff # Undefined => handoffFrom = turn.conversation

PlainContinue ==
    /\ turn.op = "continue"
    /\ \/ turn.stackBefore = <<>>
       \/ Last(turn.stackBefore) \notin {authDialogId, confirmSkillSwitchPrompt}

\* C24: in a continue with neither sub-dialog active the inbound activity is
\* forwarded to the skill unchanged (but for the recipient of the request
\* body), and when the forward has given its result the transport is
\* disconnected as the last step before the continue returns.
C24_ContinueForwardsThenDisconnects ==
    PlainContinue =>
        /\ Len(turn.exchanges) > 0
        /\ turn.fwds[1].activity = turn.inbound
        /\ turn.exchanges[1].request = turn.inbound
        /\ turn.exchanges[1].body # Undefined =>
              turn.exchanges[1].body = SubstituteRecipient(turn.inbound, skillManifest)
        /\ turn.status # "error" =>
              /\ ~ streamingTransportClient.connected
              /\ Len(turn.log) > 0
              /\ Last(turn.log).step = "disconnect"

C24_Witness ==
    /\ PlainContinue
    /\ turn.status = "complete"
    /\ Len(turn.sent) = 1
    /\ turn.clientBefore.defined
    /\ Last(turn.log).step = "disconnect"

\* The action name a begin asks for, and the SkillContext entries named by
\* a slot of the actions it selects (all actions for the empty name).
RequestedAction == IF turn.options = Undefined THEN "" ELSE turn.options.action

MatchedEntries ==
    ContextEntries(UNION {SlotNames(skillManifest.actions[i].slots) :
        i \in IF RequestedAction = "" THEN 1..Len(skillManifest.actions)
              ELSE ActionsNamed(RequestedAction)})

\* C25: every begin that reaches the skill forwards an activity carrying a
\* semantic action whose id is the requested action name (or empty), whose
\* entities are the matched slot set and whose state is skill-start, whether
\* or not the inbound activity already carried a semantic action.
C25_BeginCarriesSemanticAction ==
    (turn.op = "begin" /\ Len(turn.sent) > 0) =>
        /\ turn.sent[1].semanticAction # Undefined
        /\ turn.sent[1].semanticAction.id = RequestedAction
        /\ turn.sent[1].semanticAction.state = skillStart
        /\ turn.sent[1].semanticAction.entities = MatchedEntries

\* The token-response events among the activities the turn sent to the skill.
TokenResponsesSent ==
    {i \in 1..Len(turn.sent) : turn.sent[i].name = tokenResponseEventName}

\* C26: when the skill raises a token request the auth sub-dialog is begun;
\* no token-response event is queued or sent unless the sub-dialog has
\* completed with a token, and when it completes with a token exactly one
\* token-response event carrying that token is sent to the skill.
C26_TokenRequestAnsweredOnce ==
    (FirstExchange /\ turn.queueBefore = <<>> /\ Raised("token")) =>
        /\ queuedResponses = <<>> \/ turn.used[1].callbacks[1].auth = "token"
        /\ IF turn.used[1].callbacks[1].auth = "token"
           THEN /\ Cardinality(TokenResponsesSent) = 1
                /\ \A i \in TokenResponsesSent : turn.sent[i].value = ProviderTokenResponse
           ELSE TokenResponsesSent = {}

\* C27: connecting is idempotent: a turn creates a connection client only
\* when the transport holds none, and then one; a client once created stays
\* and is reused, also after a disconnect; and every request handed to the
\* client is handed to a connected client.
C27_ClientCreatedOnceAndReused ==
    turn.op # "none" =>
        /\ turn.created = (IF ~ turn.clientBefore.defined /\ Len(turn.exchanges) > 0
                              /\ turn.exchanges[1].error # "url is empty!"
                           THEN 1 ELSE 0)
        /\ turn.clientBefore.defined =>
              /\ streamingTransportClient.defined
              /\ streamingTransportClient.url = turn.clientBefore.url
        /\ \A i \in 1..Len(turn.exchanges) :
              turn.exchanges[i].body # Undefined => turn.exchanges[i].connected

C27_Witness ==
    /\ turn.op = "begin"
    /\ turn.phaseBefore = "Terminated"
    /\ turn.clientBefore.defined
    /\ ~ turn.clientBefore.connected
    /\ turn.created = 0
    /\ Len(turn.sent) > 0
    /\ turn.exchanges[1].connected

\* The configuration lacks the manifest, the credentials or the endpoint.
InvalidConfiguration ==
    \/ skillManifest = Undefined
    \/ serviceClientCredentials = UndefStr
    \/ skillManifest.endpoint = <<>>

\* C28: a missing endpoint or missing credentials are rejected at setup,
\* before any turn: once the constructor has run an invalid configuration
\* is rejected, and no turn fails during a forward for the missing endpoint.
C28_RejectedAtSetup ==
    /\ (phase # "Setup" /\ InvalidConfiguration) => phase = "Rejected"
    /\ turn.error # "url is empty!"

\* C29: on an unhandled turn error the host surface receives the localized
\* generic error message and the error is reported to telemetry; the
\* error's message and its stack are not sent to the chat surface.
C29_ErrorDetailOnlyToTelemetry ==
    turn.handled =>
        /\ \E i \in 1..Len(turn.surface) : turn.surface[i] = ErrorMessage
        /\ turn.tracked = <<[exception |-> turn.error]>>
        /\ \A i \in 1..Len(turn.surface) :
              turn.surface[i].text \notin {turn.error, Stack(turn.error)}

\* C30: every call of the transport's forwardToSkill, successful or failed,
\* with or without a recipient, emits exactly one latency telemetry event.
C30_OneTelemetryEventPerForward ==
    turn.telemetry = Len(turn.exchanges)

\* C31: validateClaims raises for a claim set exactly when it is a skill
\* claim whose app id is not among the app ids of the configured skills; a
\* skill claim with a configured app id and a non-skill claim are accepted.
C31_RejectsExactlyUnknownSkills ==
    claimsCall.state \in {"threw", "returned"} =>
        (claimsCall.state = "threw"
            <=> /\ isSkillClaim(claimsCall.claims)
                /\ getAppIdFromClaims(claimsCall.claims) \notin claimsCall.skills)

\* The message turn of MainDialog carried non-blank text for which the
\* general model answers one of the intents with a score above 0.5.
Interrupting(intents) ==
    /\ main.op \in {"begin", "continue"}
    /\ main.input.type = "message"
    /\ main.input.text # UndefStr
    /\ NonBlank(main.input.text)
    /\ main.input.general # Undefined
    /\ main.input.general.intent \in intents
    /\ main.input.general.score > 5

\* C32: on every message turn of MainDialog, begun or continued, with
\* non-blank text whose general top intent is Cancel or Logout above 0.5,
\* the turn interrupts and returns EndOfTurn with the cancelled or logout
\* message sent and the initial dialog begun again; on Help the active
\* dialog is left in place, the help message is sent and the turn returns
\* EndOfTurn.
C32_InterruptionsOnEveryMessageTurn ==
    /\ Interrupting({"Cancel", "Logout"}) =>
          /\ main.status = "waiting"
          /\ main.interrupted
          /\ main.sent[1] \in {"CancelledMessage", "LogoutMessage"}
          /\ Len(main.steps) > 0 /\ main.steps[1] = 0
    /\ Interrupting({"Help"}) =>
          /\ main.status = "waiting"
          /\ main.interrupted
          /\ main.sent[1] = "HelpMessage"
          /\ main.stack = main.stackBefore

\* C33: a handoff the transport's forwardToSkill returns was received during
\* that same call; a handoff recorded before the call is never its outcome.
C33_HandoffReceivedInSameCall ==
    \A i \in 1..Len(turn.exchanges) :
        turn.exchanges[i].handoff # Undefined =>
            HandoffsObserved(turn.exchanges[i]) # {}

\* The exchanges of the turn during which the skill raised a token or a
\* fallback request.
WithRequests ==
    {i \in 1..Len(turn.exchanges) :
        \E j \in 1..Len(turn.exchanges[i].observed) :
            turn.exchanges[i].observed[j].kind \in {"token", "fallback"}}

\* C34: the token-request and fallback handlers that run for a callback
\* received during a forward are the ones passed to that forward, bound to
\* the dialog context of the current turn, on every forward of a transport.
C34_HandlersOfTheCurrentForward ==
    \A i \in WithRequests :
        /\ turn.exchanges[i].fresh
        /\ turn.exchanges[i].installed = turn.exchanges[i].passed

\* C35: every fallback request the skill raises during a forward issued by
\* the dialog reaches the dialog's fallback handler and puts exactly one
\* fallback event on the pending queue (or has it resent within the turn).
C35_FallbackRequestQueued ==
    (Raised("fallback") /\ turn.queueBefore = <<>>) =>
        /\ turn.exchanges[1].installed.fallback
        /\ Cardinality({i \in 1..Len(queuedResponses) :
                           queuedResponses[i].name = fallbackEventName})
           + Cardinality({i \in 2..Len(turn.sent) :
                           turn.sent[i].name \in {fallbackEventName,
                                                  fallbackHandledEventName}})
           = Cardinality({j \in 1..Len(turn.used[1].callbacks) :
                           turn.used[1].callbacks[j].kind = "fallback"})

C37_DisconnectedOnReturn ==
    (turn.op \in {"begin", "continue"}
     /\ \E i \in 1..Len(turn.exchanges) : turn.exchanges[i].connected)
    => ~ streamingTransportClient.connected

Taken == Len(turn.queueBefore) - Len(queuedResponses)

AskedToSwitch == \E i \in 1..Len(turn.log) : turn.log[i].step = "prompt"

RequestsBuilt ==
    {i \in 1..Len(turn.exchanges) : turn.exchanges[i].body # Undefined}

C40_TokenThenConnectThenSend ==
    /\ \A i \in 1..Len(turn.exchanges) :
          LET exchange == turn.exchanges[i]
          IN  /\ exchange.body # Undefined =>
                    /\ exchange.token = getToken(i)
                    /\ exchange.authorization = [scheme |-> "Bearer", token |-> exchange.token]
                    /\ exchange.connected
              /\ exchange.error \in {"getToken failed", "connectAsync failed"} =>
                    /\ exchange.body = Undefined
                    /\ ~ exchange.connected
    /\ Len(turn.sent) = Cardinality(RequestsBuilt)

C40_Witness ==
    /\ turn.op = "begin"
    /\ Len(turn.exchanges) = 1
    /\ turn.exchanges[1].body # Undefined
    /\ turn.exchanges[1].connected
    /\ turn.exchanges[1].authorization = Bearer(getToken(1))
    /\ Len(turn.sent) = 1
====
